---- MODULE Spec2Model ----
(***************************************************************************)
(* gocovercheck: runs "go test" with a coverage profile, aggregates the    *)
(* profile's blocks into a statement-coverage percentage and fails when    *)
(* the percentage is below the required coverage.                          *)
(*                                                                         *)
(* The arithmetic of the program is Go's: int is IntBits wide and wraps,   *)
(* float64 has a MantBits-bit significand and rounds to nearest, ties to   *)
(* even.  Both are modelled exactly, on numbers held as limb vectors.      *)
(***************************************************************************)
EXTENDS Integers, Sequences, FiniteSets, TLC


(***************************************************************************)
(* Numbers.                                                                *)
(***************************************************************************)

\* Go's int on the 64-bit targets, and float64's significand.
IntBits == 64
MantBits == 53

\* A natural number is a tuple of NumLimbs limbs, least significant first;
\* a limb is small enough that the product of two limbs is an integer TLC
\* can hold, and NumLimbs limbs hold the product of two significands.

LimbBits == (IntBits \div 4) - 1
LimbBase == 2^LimbBits
NumLimbs == (2 * MantBits + LimbBits - 1) \div LimbBits
Limbs == 1..NumLimbs
Pow2 == [i \in 0..(2 * LimbBits) |-> 2^i]

\* The tuple of a limb function, so that each limb is computed once.
Tup(f) == SubSeq(f, 1, NumLimbs)

BZero == Tup([i \in Limbs |-> 0])

BNat(n) ==
    Tup([i \in Limbs |->
        IF i = 1 THEN n % LimbBase
        ELSE IF i = 2 THEN (n \div LimbBase) % LimbBase
        ELSE IF i = 3 THEN n \div (LimbBase * LimbBase)
        ELSE 0])

BIsZero(a) == \A i \in Limbs : a[i] = 0

TopLimb(a) == CHOOSE i \in Limbs : a[i] # 0 /\ \A j \in Limbs : j > i => a[j] = 0

SmallLen(x) == CHOOSE k \in 0..LimbBits : x < Pow2[k] /\ (k = 0 \/ x >= Pow2[k - 1])

BitLen(a) == IF BIsZero(a) THEN 0 ELSE LimbBits * (TopLimb(a) - 1) + SmallLen(a[TopLimb(a)])

TestBit(a, i) == (a[((i - 1) \div LimbBits) + 1] \div Pow2[(i - 1) % LimbBits]) % 2

Shl(a, k) ==
    LET q == k \div LimbBits
        r == k % LimbBits
    IN  Tup([i \in Limbs |->
            (IF i - q >= 1 THEN (a[i - q] * Pow2[r]) % LimbBase ELSE 0)
          + (IF i - q - 1 >= 1 THEN a[i - q - 1] \div Pow2[LimbBits - r] ELSE 0)])

Shr(a, k) ==
    LET q == k \div LimbBits
        r == k % LimbBits
    IN  Tup([i \in Limbs |->
            (IF i + q <= NumLimbs THEN a[i + q] \div Pow2[r] ELSE 0)
          + (IF i + q + 1 <= NumLimbs THEN (a[i + q + 1] % Pow2[r]) * Pow2[LimbBits - r] ELSE 0)])

RECURSIVE CarryInto(_, _, _)
CarryInto(a, b, i) ==
    IF i = 1 THEN 0 ELSE (a[i - 1] + b[i - 1] + CarryInto(a, b, i - 1)) \div LimbBase

BAdd(a, b) == Tup([i \in Limbs |-> (a[i] + b[i] + CarryInto(a, b, i)) % LimbBase])

RECURSIVE BorrowInto(_, _, _)
BorrowInto(a, b, i) ==
    IF i = 1 THEN 0 ELSE IF a[i - 1] - b[i - 1] - BorrowInto(a, b, i - 1) < 0 THEN 1 ELSE 0

BSub(a, b) == Tup([i \in Limbs |-> (a[i] - b[i] - BorrowInto(a, b, i)) % LimbBase])

BCmp(a, b) ==
    IF a = b THEN 0
    ELSE LET t == CHOOSE i \in Limbs : a[i] # b[i] /\ \A j \in Limbs : j > i => a[j] = b[j]
         IN  IF a[t] > b[t] THEN 1 ELSE -1

RECURSIVE MulCarry(_, _, _)
MulCarry(a, s, i) ==
    IF i = 1 THEN 0 ELSE (a[i - 1] * s + MulCarry(a, s, i - 1)) \div LimbBase

MulSmall(a, s) == Tup([i \in Limbs |-> (a[i] * s + MulCarry(a, s, i)) % LimbBase])

RECURSIVE MulFrom(_, _, _)
MulFrom(a, b, j) ==
    IF j > NumLimbs THEN BZero
    ELSE IF b[j] = 0 THEN MulFrom(a, b, j + 1)
    ELSE BAdd(Shl(MulSmall(a, b[j]), LimbBits * (j - 1)), MulFrom(a, b, j + 1))

BMul(a, b) == MulFrom(a, b, 1)

\* A float64: not-a-number, an infinity, or (-1)^neg * m * 2^e with m = 0 or
\* 2^(MantBits-1) <= m < 2^MantBits.
NaN == [k |-> "nan", neg |-> FALSE, m |-> BZero, e |-> 0]
Inf(neg) == [k |-> "inf", neg |-> neg, m |-> BZero, e |-> 0]
FZero(neg) == [k |-> "num", neg |-> neg, m |-> BZero, e |-> 0]
FNum(neg, m, e) == [k |-> "num", neg |-> neg, m |-> m, e |-> e]
IsZero(a) == a.k = "num" /\ BIsZero(a.m)

\* n * 2^e (plus a non-zero fraction of its last place when sticky) rounded to
\* the nearest float64, ties to even.
Round(neg, n, e, sticky) ==
    LET len == BitLen(n)
    IN  IF len = 0 THEN FZero(neg)
        ELSE IF len <= MantBits THEN FNum(neg, Shl(n, MantBits - len), e - (MantBits - len))
        ELSE LET d    == len - MantBits
                 kept == Shr(n, d)
                 half == TestBit(n, d) = 1
                 rest == sticky \/ Shl(Shr(n, d - 1), d - 1) # n
                 up   == half /\ (rest \/ kept[1] % 2 = 1)
                 r    == IF up THEN BAdd(kept, BNat(1)) ELSE kept
             IN  IF BitLen(r) > MantBits THEN FNum(neg, Shr(r, 1), e + d + 1)
                 ELSE FNum(neg, r, e + d)

\* One step of long division: the next quotient bit and the remainder.
DivStep2(q, r2, d) ==
    IF BCmp(r2, d) >= 0
    THEN [q |-> [Shl(q, 1) EXCEPT ![1] = @ + 1], rem |-> BSub(r2, d)]
    ELSE [q |-> Shl(q, 1), rem |-> r2]

DivStep(p, d) == DivStep2(p.q, Shl(p.rem, 1), d)

\* k steps of long division, by halves.
RECURSIVE DivIter(_, _, _)
DivIter(p, d, k) ==
    IF k = 0 \/ Len(p.q) = 0 THEN p
    ELSE IF k = 1 THEN DivStep(p, d)
    ELSE DivIter(DivIter(p, d, k \div 2), d, k - (k \div 2))

DivBits(rem0, d, k) == DivIter([q |-> BZero, rem |-> rem0], d, k)

FDivRound(a, b, ge, dv) ==
    Round(a.neg # b.neg,
          IF ge THEN BAdd(dv.q, Shl(BNat(1), MantBits + 2)) ELSE dv.q,
          a.e - b.e - (MantBits + 2),
          ~BIsZero(dv.rem))

FDivNum(a, b, ge) ==
    FDivRound(a, b, ge, DivBits(IF ge THEN BSub(a.m, b.m) ELSE a.m, b.m, MantBits + 2))

FDiv(a, b) ==
    IF a.k = "nan" \/ b.k = "nan" THEN NaN
    ELSE IF a.k = "inf" THEN (IF b.k = "inf" THEN NaN ELSE Inf(a.neg # b.neg))
    ELSE IF b.k = "inf" THEN FZero(a.neg # b.neg)
    ELSE IF BIsZero(b.m) THEN (IF BIsZero(a.m) THEN NaN ELSE Inf(a.neg # b.neg))
    ELSE IF BIsZero(a.m) THEN FZero(a.neg # b.neg)
    ELSE FDivNum(a, b, BCmp(a.m, b.m) >= 0)

FMul(a, b) ==
    IF a.k = "nan" \/ b.k = "nan" THEN NaN
    ELSE IF a.k = "inf" \/ b.k = "inf"
    THEN (IF IsZero(a) \/ IsZero(b) THEN NaN ELSE Inf(a.neg # b.neg))
    ELSE Round(a.neg # b.neg, BMul(a.m, b.m), a.e + b.e, FALSE)

MagCmp(a, b) ==
    IF BIsZero(a.m) THEN (IF BIsZero(b.m) THEN 0 ELSE -1)
    ELSE IF BIsZero(b.m) THEN 1
    ELSE IF a.e > b.e THEN 1
    ELSE IF a.e < b.e THEN -1
    ELSE BCmp(a.m, b.m)

FAdd(a, b) ==
    IF a.k = "nan" \/ b.k = "nan" THEN NaN
    ELSE IF a.k = "inf" THEN (IF b.k = "inf" /\ a.neg # b.neg THEN NaN ELSE a)
    ELSE IF b.k = "inf" THEN b
    ELSE IF BIsZero(a.m) THEN (IF BIsZero(b.m) THEN FZero(a.neg /\ b.neg) ELSE b)
    ELSE IF BIsZero(b.m) THEN a
    ELSE IF a.e - b.e > MantBits + 2 THEN a
    ELSE IF b.e - a.e > MantBits + 2 THEN b
    ELSE LET e == IF a.e <= b.e THEN a.e ELSE b.e
             x == Shl(a.m, a.e - e)
             y == Shl(b.m, b.e - e)
             c == BCmp(x, y)
         IN  IF a.neg = b.neg THEN Round(a.neg, BAdd(x, y), e, FALSE)
             ELSE IF c = 0 THEN FZero(FALSE)
             ELSE IF c > 0 THEN Round(a.neg, BSub(x, y), e, FALSE)
             ELSE Round(b.neg, BSub(y, x), e, FALSE)

FLess(a, b) ==
    IF a.k = "nan" \/ b.k = "nan" THEN FALSE
    ELSE IF a.k = "inf" THEN a.neg /\ ~(b.k = "inf" /\ b.neg)
    ELSE IF b.k = "inf" THEN ~b.neg /\ ~(a.k = "inf" /\ ~a.neg)
    ELSE IF BIsZero(a.m) /\ BIsZero(b.m) THEN FALSE
    ELSE IF BIsZero(a.m) THEN ~b.neg
    ELSE IF BIsZero(b.m) THEN a.neg
    ELSE IF a.neg # b.neg THEN a.neg
    ELSE IF a.neg THEN MagCmp(a, b) > 0
    ELSE MagCmp(a, b) < 0

FromNat(n) == Round(FALSE, BNat(n), 0, FALSE)

\* A Go int: two's complement of IntBits bits, held as the natural below
\* 2^IntBits.  IntAdd wraps, as Go's + does.
IntWrap(a) == Shr(Shl(a, NumLimbs * LimbBits - IntBits), NumLimbs * LimbBits - IntBits)
IntAdd(a, b) == IntWrap(BAdd(a, b))
IntNeg(a) == TestBit(a, IntBits) = 1
IntAbs(a) == IF IntNeg(a) THEN BSub(Shl(BNat(1), IntBits), a) ELSE a
IntLessEq(a, b) ==
    IF IntNeg(a) # IntNeg(b) THEN IntNeg(a) ELSE BCmp(a, b) <= 0
FromInt(a) == Round(IntNeg(a), IntAbs(a), 0, FALSE)

(***************************************************************************)
(* calculateCoverage.                                                      *)
(***************************************************************************)

\* The largest statement count strconv.Atoi accepts in a profile line.
MaxInt == BSub(Shl(BNat(1), IntBits - 1), BNat(1))

\* A block of a parsed profile: cover.ProfileBlock's NumStmt and Count.
Block(numStmt, count) == [NumStmt |-> numStmt, Count |-> count]

\* The loop body: total += block.NumStmt; if block.Count > 0 { covered += block.NumStmt }
CoverStepCountOne(acc, block) ==
    [total   |-> IntAdd(acc.total, block.NumStmt),
     covered |-> IF block.Count = 1 THEN IntAdd(acc.covered, block.NumStmt) ELSE acc.covered]

CoverStep(acc, block) ==
    [total   |-> IntAdd(acc.total, block.NumStmt),
     covered |-> IF block.Count > 0 THEN IntAdd(acc.covered, block.NumStmt) ELSE acc.covered]

\* After the loop: if total == 0 { return 0.0 }; return float64(covered) / float64(total) * 100
CoverResultNoGuard(total, covered) ==
    FMul(FDiv(FromInt(covered), FromInt(total)), FromNat(100))

CoverResult(total, covered) ==
    IF BIsZero(total) THEN FZero(FALSE)
    ELSE FMul(FDiv(FromInt(covered), FromInt(total)), FromNat(100))

RECURSIVE CoverFold(_, _, _)
CoverFold(acc, blocks, i) ==
    IF i > Len(blocks) THEN acc ELSE CoverFold(CoverStep(acc, blocks[i]), blocks, i + 1)

\* return float64(covered) / float64(total) * 100, nil (or 0, nil)
CoverOf(acc) == [coverage |-> CoverResult(acc.total, acc.covered), err |-> "nil"]

\* calculateCoverage on the file at coverprofile: cover.ParseProfiles fails on a
\* file it cannot open or parse, and else hands over the blocks of its profiles.
calculateCoverage(file) ==
    IF ~file.exists \/ ~file.parsed.ok THEN [coverage |-> FZero(FALSE), err |-> "parse"]
    ELSE CoverOf(CoverFold([total |-> BZero, covered |-> BZero], file.parsed.blocks, 1))

(***************************************************************************)
(* Text: a string is a sequence of one-character strings.                  *)
(***************************************************************************)

RECURSIVE IndexFrom(_, _, _)
IndexFrom(s, ch, i) ==
    IF i > Len(s) THEN 0 ELSE IF s[i] = ch THEN i ELSE IndexFrom(s, ch, i + 1)

\* strings.Index for a one-character separator, counted from 1; 0 when absent.
Index(s, ch) == IndexFrom(s, ch, 1)

RECURSIVE LastIndexFrom(_, _, _)
LastIndexFrom(s, ch, i) ==
    IF i = 0 THEN 0 ELSE IF s[i] = ch THEN i ELSE LastIndexFrom(s, ch, i - 1)

LastIndex(s, ch) == LastIndexFrom(s, ch, Len(s))

\* strings.Split(s, sep) for a one-character separator.
RECURSIVE Split(_, _)
Split(s, ch) ==
    IF Index(s, ch) = 0 THEN <<s>>
    ELSE <<SubSeq(s, 1, Index(s, ch) - 1)>> \o Split(SubSeq(s, Index(s, ch) + 1, Len(s)), ch)

DotDot == <<".", ".">>

\* filepath.Clean's elements: empty and "." elements dropped, ".." removing the
\* element before it, dropped at the root and kept at the front otherwise.
RECURSIVE CleanElems(_, _, _, _)
CleanElems(elems, i, kept, rooted) ==
    IF i > Len(elems) THEN kept
    ELSE IF elems[i] = <<>> \/ elems[i] = <<".">> THEN CleanElems(elems, i + 1, kept, rooted)
    ELSE IF elems[i] = DotDot
    THEN (IF Len(kept) > 0 /\ kept[Len(kept)] # DotDot
          THEN CleanElems(elems, i + 1, SubSeq(kept, 1, Len(kept) - 1), rooted)
          ELSE IF rooted THEN CleanElems(elems, i + 1, kept, rooted)
          ELSE CleanElems(elems, i + 1, Append(kept, DotDot), rooted))
    ELSE CleanElems(elems, i + 1, Append(kept, elems[i]), rooted)

RECURSIVE Join(_, _)
Join(elems, i) ==
    IF i > Len(elems) THEN <<>>
    ELSE IF i = Len(elems) THEN elems[i]
    ELSE elems[i] \o <<"/">> \o Join(elems, i + 1)

Rooted(path) == Len(path) > 0 /\ path[1] = "/"

\* filepath.Clean on a slash-separated path.
Clean(path) ==
    IF Rooted(path) THEN <<"/">> \o Join(CleanElems(Split(path, "/"), 1, <<>>, TRUE), 1)
    ELSE IF CleanElems(Split(path, "/"), 1, <<>>, FALSE) = <<>> THEN <<".">>
    ELSE Join(CleanElems(Split(path, "/"), 1, <<>>, FALSE), 1)

\* filepath.Dir: Clean of the path up to and including its last separator.
Dir(path) == Clean(SubSeq(path, 1, LastIndex(path, "/")))

(***************************************************************************)
(* guessPackageName.                                                       *)
(***************************************************************************)

\* A file: whether it can be opened, its lines as bufio.Scanner splits them,
\* and what cover.ParseProfiles makes of it (an error, or its blocks).
File(lines, ok, blocks) ==
    [exists |-> TRUE, lines |-> lines, parsed |-> [ok |-> ok, blocks |-> blocks]]

Absent == [exists |-> FALSE, lines |-> <<>>, parsed |-> [ok |-> FALSE, blocks |-> <<>>]]

defaultPackageName == <<>>

guessPackageNameFirstLine(file) ==
    IF ~file.exists THEN defaultPackageName
    ELSE IF Len(file.lines) < 1 THEN defaultPackageName
    ELSE IF Len(Split(file.lines[1], ":")) < 2 THEN defaultPackageName
    ELSE Dir(Split(file.lines[1], ":")[1])

guessPackageName(file) ==
    IF ~file.exists THEN defaultPackageName
    ELSE IF Len(file.lines) < 2 THEN defaultPackageName
    ELSE IF Len(Split(file.lines[2], ":")) < 2 THEN defaultPackageName
    ELSE Dir(Split(file.lines[2], ":")[1])

(***************************************************************************)
(* forFile and the redirects.                                              *)
(***************************************************************************)

\* An error: its kind, and the line breaks in its Error() text.  Only the
\* message for more than one directory argument ends in a line break.
Err(kind) == [kind |-> kind, breaks |-> IF kind = "args" THEN 1 ELSE 0]
Nil == Err("nil")

\* Writers.  os.Stdout and os.Stderr are the process's own streams, "discard"
\* is the one discardWriteCloserStruct, and every successful os.Create makes
\* a file of its own.
Discard == "discard"
NoWriter == "nil"

\* os.Create's two results.
Created(handle) == [w |-> handle, err |-> "nil"]
CreateFailed == [w |-> NoWriter, err |-> "create"]

forFileSwapped(filename, dash, created) ==
    IF filename = "" THEN [w |-> dash, err |-> "nil"]
    ELSE IF filename = "-" THEN [w |-> Discard, err |-> "nil"]
    ELSE created

\* forFile; created is what os.Create(filename) returns when it is called.
forFile(filename, dash, created) ==
    IF filename = "-" THEN [w |-> dash, err |-> "nil"]
    ELSE IF filename = "" THEN [w |-> Discard, err |-> "nil"]
    ELSE created

\* A cleanup function: the closure's action and what it captured.
CloseOf(w) == [op |-> "close", target |-> w]
RemoveOf(path) == [op |-> "remove", target |-> path]

\* addCleanup appends; the older revision's defer statements run last-in
\* first-out, so there the newest comes first.
addCleanup(rev, cleanup, f) == IF rev = 1 THEN Append(cleanup, f) ELSE <<f>> \o cleanup

setupRedirectClosesDash(rev, cleanup, filename, dash, created) ==
    IF forFile(filename, dash, created).err # "nil"
    THEN [w |-> NoWriter, err |-> "pipe", cleanup |-> cleanup]
    ELSE [w       |-> forFile(filename, dash, created).w,
          err     |-> "nil",
          cleanup |-> addCleanup(rev, cleanup, CloseOf(forFile(filename, dash, created).w))]

\* setupRedirect (and, in the older revision, the same statements in main).
setupRedirect(rev, cleanup, filename, dash, created) ==
    IF forFile(filename, dash, created).err # "nil"
    THEN [w |-> NoWriter, err |-> "pipe", cleanup |-> cleanup]
    ELSE [w       |-> forFile(filename, dash, created).w,
          err     |-> "nil",
          cleanup |-> IF forFile(filename, dash, created).w # dash
                      THEN addCleanup(rev, cleanup, CloseOf(forFile(filename, dash, created).w))
                      ELSE cleanup]

\* The temporary profile's name, and the file ioutil.TempFile makes.
TempName == "tmp/gocovercheck"
EmptyFile == File(<<>>, TRUE, <<>>)

setupTempCoverProfileLate(rev, cleanup, outcome) ==
    IF outcome = "createfail"
    THEN [err |-> Err("tempcreate"), cleanup |-> cleanup, coverprofile |-> "", made |-> FALSE]
    ELSE IF outcome = "closefail"
    THEN [err |-> Err("tempclose"), cleanup |-> cleanup, coverprofile |-> "", made |-> TRUE]
    ELSE [err |-> Nil, cleanup |-> addCleanup(rev, cleanup, RemoveOf(TempName)),
          coverprofile |-> TempName, made |-> TRUE]

\* setupTempCoverProfile (and, in the older revision, the same statements in
\* main); outcome is how ioutil.TempFile and the file's Close went.
setupTempCoverProfile(rev, cleanup, outcome) ==
    IF outcome = "createfail"
    THEN [err |-> Err("tempcreate"), cleanup |-> cleanup, coverprofile |-> "", made |-> FALSE]
    ELSE IF outcome = "closefail"
    THEN [err |-> Err("tempclose"), cleanup |-> addCleanup(rev, cleanup, RemoveOf(TempName)),
          coverprofile |-> "", made |-> TRUE]
    ELSE [err |-> Nil, cleanup |-> addCleanup(rev, cleanup, RemoveOf(TempName)),
          coverprofile |-> TempName, made |-> TRUE]

\* One cleanup function run: os.Remove deletes the file, Close counts on the
\* writer.  Their errors are only logged.
RunOne(env, f) ==
    IF f.op = "remove"
    THEN [env EXCEPT !.files = [@ EXCEPT ![f.target] = Absent]]
    ELSE [env EXCEPT !.closed = [@ EXCEPT ![f.target] = @ + 1]]

RECURSIVE RunAll(_, _, _)
RunAll(env, cleanup, i) ==
    IF i > Len(cleanup) THEN env ELSE RunAll(RunOne(env, cleanup[i]), cleanup, i + 1)

\* Close: every cleanup function, in order.
Close(env, cleanup) == RunAll(env, cleanup, 1)

(***************************************************************************)
(* Errors and the threshold.                                               *)
(***************************************************************************)

\* The constant .001, and flag.Float64Var's reading of a decimal with three
\* places, given in thousandths.
Eps == FDiv(FromNat(1), FromNat(1000))
ParseFloat(thousandths) == FDiv(FromNat(thousandths), FromNat(1000))

BelowNoTolerance(coverage, required) == FLess(coverage, required)

\* coverage+.001 < g.requiredCoverage
Below(coverage, required) == FLess(FAdd(coverage, Eps), required)

\* The rest of runCmd, once calculateCoverage has returned c.
runCmdCheck(required, c) ==
    IF c.err # "nil"
    THEN [err |-> Err("parse"), coverage |-> c.coverage, calculated |-> TRUE, compared |-> FALSE]
    ELSE [err        |-> IF Below(c.coverage, required) THEN Err("threshold") ELSE Nil,
          coverage   |-> c.coverage,
          calculated |-> TRUE,
          compared   |-> TRUE]

runCmdIgnoresRunErr(required, runOk, file) == runCmdCheck(required, calculateCoverage(file))

\* runCmd, from cmdRun's return on: runOk is whether cmdRun returned nil, file
\* the file at coverprofile then.
runCmd(required, runOk, file) ==
    IF ~runOk
    THEN [err |-> Err("subprocess"), coverage |-> FZero(FALSE),
          calculated |-> FALSE, compared |-> FALSE]
    ELSE runCmdCheck(required, calculateCoverage(file))

\* The process's main, once gocovercheck.main has returned err: the lines it
\* writes to os.Stdout and the exit status.
ExitAlwaysZero(err) ==
    IF err.kind = "nil" THEN [lines |-> 0, status |-> 0]
    ELSE [lines |-> 1 + err.breaks, status |-> 0]

Exit(err) ==
    IF err.kind = "nil" THEN [lines |-> 0, status |-> 0]
    ELSE [lines |-> 1 + err.breaks, status |-> 1]

(***************************************************************************)
(* State.                                                                  *)
(***************************************************************************)

VARIABLES
    rev,        \* which revision of main runs: 1 (cleanupFunctions) or 2 (defers)
    pc,         \* main's position: "off", "start", "temp", "flags", "stdout",
                \* "stderr", "run", "returned", "exited"
    g,          \* the gocovercheck struct
    env,        \* the file system's profile files and the Close calls per writer
    err,        \* what gocovercheck.main returned
    run,        \* what runCmd did: ran, runOk, parsed, and runCmd's record
    out,        \* lines written to os.Stdout by the process's main, exit status
    tempMade,   \* ioutil.TempFile made a file
    obtained,   \* the writers forFile handed to main, in order
    cpc,        \* calculateCoverage: "off", "loop" (in the block loop), "done"
    nblocks,    \* blocks the loop has consumed
    total,      \* calculateCoverage's total
    covered,    \* calculateCoverage's covered
    result,     \* what calculateCoverage returned, once cpc = "done"
    allHit,     \* every consumed block had Count > 0
    allEmpty,   \* every consumed block had NumStmt = 0
    guess,      \* guessPackageName: the file, whether it was called, its result
    ff          \* forFile: its arguments, its result, and the use of the writer

mainVars == <<rev, pc, g, env, err, run, out, tempMade, obtained>>
covVars == <<cpc, nblocks, total, covered, result, allHit, allEmpty>>

vars == <<mainVars, covVars, guess, ff>>

(***************************************************************************)
(* calculateCoverage's loop, block by block, over the profiles the parser  *)
(* can hand it.                                                            *)
(***************************************************************************)

MaxBlocks == 3

StmtChoices == {BZero, BNat(1), BNat(10), MaxInt}
CountChoices == {0, 1, 2}

NoResult == [coverage |-> NaN, err |-> "none"]

CovOff ==
    /\ cpc = "off" /\ nblocks = 0 /\ total = BZero /\ covered = BZero
    /\ result = NoResult /\ allHit = TRUE /\ allEmpty = TRUE

CovInit ==
    /\ cpc = "loop" /\ nblocks = 0 /\ total = BZero /\ covered = BZero
    /\ result = NoResult /\ allHit = TRUE /\ allEmpty = TRUE

CovApply(acc, block) ==
    /\ total' = CoverStep(acc, block).total
    /\ covered' = CoverStep(acc, block).covered
    /\ allHit' = (allHit /\ block.Count > 0)
    /\ allEmpty' = (allEmpty /\ BIsZero(block.NumStmt))

\* One iteration of the loop over the profiles' blocks.
CovBlock ==
    /\ cpc = "loop"
    /\ nblocks < MaxBlocks
    /\ \E n \in StmtChoices, c \in CountChoices :
           CovApply([total |-> total, covered |-> covered], Block(n, c))
    /\ nblocks' = nblocks + 1
    /\ UNCHANGED <<cpc, result, mainVars, guess, ff>>

\* The blocks are used up: the function returns.
CovReturn ==
    /\ cpc = "loop"
    /\ cpc' = "done"
    /\ result' = CoverOf([total |-> total, covered |-> covered])
    /\ UNCHANGED <<nblocks, total, covered, allHit, allEmpty, mainVars, guess, ff>>

CovNext == CovBlock \/ CovReturn

(***************************************************************************)
(* gocovercheck.main and the process's main.                               *)
(***************************************************************************)

Stdout == "os.Stdout"
Stderr == "os.Stderr"
StdoutFile == "file1"
StderrFile == "file2"
Writers == {Stdout, Stderr, Discard, StdoutFile, StderrFile}

\* Where the profile can be: the temporary file, the -coverprofile path, and
\* the path inside -dirout.
CoverOut == "cover.out"
DirCover == "d/code_coverage.txt"
Paths == {TempName, CoverOut, DirCover}

Cwd == <<"w">>
ArgDir == <<"p">>

\* What the go test sub-process can leave at coverprofile.
ModeLine == <<"m", ":">>
Garbage == File(<<<<"x">>>>, FALSE, <<>>)
Profile(blocks) == File(<<ModeLine, <<"a", "/", "f", ":", "1">>>>, TRUE, blocks)
P50 == Profile(<<Block(BNat(10), 1), Block(BNat(10), 0)>>)
P79999 == Profile(<<Block(BNat(79998), 3), Block(BNat(1), 1), Block(BNat(20001), 0)>>)
P79998 == Profile(<<Block(BNat(79998), 3), Block(BNat(1), 0), Block(BNat(20001), 0)>>)
ProfileFiles == {Absent, EmptyFile, Garbage, P50, P79999, P79998}

\* -required_coverage, in thousandths.
RequiredChoices == {0, 60000, 80000}

NoRun ==
    [ran |-> FALSE, runOk |-> FALSE, parsed |-> FALSE,
     r |-> [err |-> Nil, coverage |-> FZero(FALSE), calculated |-> FALSE, compared |-> FALSE]]
NoExit == [lines |-> 0, status |-> -1]
NoFiles == [files |-> [p \in Paths |-> Absent], closed |-> [w \in Writers |-> 0]]

Config(required, coverprofile, stdout, stderr, dirout, testFlags, cmdArgs) ==
    [requiredCoverage     |-> ParseFloat(required),
     coverprofile         |-> coverprofile,
     stdout               |-> stdout,
     stderr               |-> stderr,
     dirout               |-> dirout,
     testFlags            |-> testFlags,
     cmdArgs              |-> cmdArgs,
     bestGuessPackageName |-> <<>>,
     cleanupFunctions     |-> <<>>]

MainOff ==
    /\ rev = 1 /\ pc = "off" /\ g = Config(0, "", "", "", "", "[]", <<>>)
    /\ env = NoFiles /\ err = Nil /\ run = NoRun /\ out = NoExit
    /\ tempMade = FALSE /\ obtained = <<>>

GuessOff == guess = [file |-> Absent, called |-> FALSE, name |-> <<>>]

FFOff ==
    ff = [filename |-> "", dash |-> Stdout, creatable |-> FALSE, called |-> FALSE,
          w |-> NoWriter, err |-> "nil", created |-> FALSE, stored |-> 0,
          streamed |-> 0, closes |-> 0, failed |-> FALSE, ops |-> 0]

CovStart == CovInit /\ MainOff /\ GuessOff /\ FFOff

CoverageSpec == CovStart /\ [][CovNext]_vars

\* A return from gocovercheck.main: the deferred Close (or the defers) run
\* over the cleanup functions cl, on the file system en.
Return(e, cl, en) ==
    /\ err' = e
    /\ env' = Close(en, cl)
    /\ pc' = "returned"

MainInit ==
    /\ rev \in {1, 2}
    /\ \E required \in RequiredChoices, coverprofile \in {"", CoverOut},
          stdout \in {"", "-", "out.txt"}, stderr \in {"", "-", "err.txt"},
          dirout \in {"", "d"}, testFlags \in {"[]", "{"},
          cmdArgs \in {<<>>, <<ArgDir>>, <<ArgDir, ArgDir>>} :
          g = IF rev = 1
              THEN Config(required, coverprofile, stdout, stderr, dirout, testFlags, cmdArgs)
              ELSE Config(required, coverprofile, stdout, stderr, "", "[]", <<>>)
    /\ pc = IF rev = 1 THEN "start" ELSE "temp"
    /\ env = NoFiles /\ err = Nil /\ run = NoRun /\ out = NoExit
    /\ tempMade = FALSE /\ obtained = <<>>

\* main up to the temporary profile: the deferred Close is in place, then
\* Getwd, the directory arguments and -dirout.
MainStart ==
    /\ pc = "start"
    /\ \E wdOk \in BOOLEAN :
          IF ~wdOk
          THEN /\ Return(Err("getwd"), g.cleanupFunctions, env)
               /\ UNCHANGED g
          ELSE IF Len(g.cmdArgs) > 1
          THEN /\ Return(Err("args"), g.cleanupFunctions, env)
               /\ g' = [g EXCEPT !.bestGuessPackageName = Cwd]
          ELSE /\ g' = [g EXCEPT
                          !.bestGuessPackageName =
                              IF Len(g.cmdArgs) = 1 THEN g.cmdArgs[1] ELSE Cwd,
                          !.coverprofile = IF g.dirout # "" THEN DirCover ELSE @,
                          !.stderr = IF g.dirout # "" THEN "d/stderr.txt" ELSE @,
                          !.stdout = IF g.dirout # "" THEN "d/stdout.txt" ELSE @]
               /\ pc' = "temp"
               /\ UNCHANGED <<env, err>>
    /\ UNCHANGED <<rev, run, out, tempMade, obtained, covVars, guess, ff>>

\* The temporary profile, when coverprofile is empty.
MainTemp ==
    /\ pc = "temp"
    /\ IF g.coverprofile # ""
       THEN /\ pc' = IF rev = 1 THEN "flags" ELSE "stdout"
            /\ UNCHANGED <<g, env, err, tempMade>>
       ELSE \E outcome \in {"ok", "createfail", "closefail"} :
              /\ tempMade' = setupTempCoverProfile(rev, g.cleanupFunctions, outcome).made
              /\ g' = [g EXCEPT
                         !.cleanupFunctions =
                             setupTempCoverProfile(rev, g.cleanupFunctions, outcome).cleanup,
                         !.coverprofile =
                             setupTempCoverProfile(rev, g.cleanupFunctions, outcome).coverprofile]
              /\ IF outcome = "ok"
                 THEN /\ env' = [env EXCEPT !.files[TempName] = EmptyFile]
                      /\ pc' = IF rev = 1 THEN "flags" ELSE "stdout"
                      /\ UNCHANGED err
                 ELSE Return(setupTempCoverProfile(rev, g.cleanupFunctions, outcome).err,
                             setupTempCoverProfile(rev, g.cleanupFunctions, outcome).cleanup,
                             IF outcome = "closefail"
                             THEN [env EXCEPT !.files[TempName] = EmptyFile]
                             ELSE env)
    /\ UNCHANGED <<rev, run, out, obtained, covVars, guess, ff>>

\* json.Unmarshal of -testflags (the newer revision only).
MainFlags ==
    /\ pc = "flags"
    /\ IF g.testFlags = "[]"
       THEN /\ pc' = "stdout"
            /\ UNCHANGED <<env, err>>
       ELSE Return(Err("testflags"), g.cleanupFunctions, env)
    /\ UNCHANGED <<rev, g, run, out, tempMade, obtained, covVars, guess, ff>>

\* One redirect: forFile, and the registration of the writer's Close.
Redirect(filename, dash, handle, kind, next) ==
    \E created \in {Created(handle), CreateFailed} :
        IF setupRedirect(rev, g.cleanupFunctions, filename, dash, created).err # "nil"
        THEN /\ Return(Err(kind), g.cleanupFunctions, env)
             /\ UNCHANGED <<g, obtained>>
        ELSE /\ g' = [g EXCEPT !.cleanupFunctions =
                         setupRedirect(rev, g.cleanupFunctions, filename, dash, created).cleanup]
             /\ obtained' = Append(obtained,
                         setupRedirect(rev, g.cleanupFunctions, filename, dash, created).w)
             /\ pc' = next
             /\ UNCHANGED <<env, err>>

MainStdout ==
    /\ pc = "stdout"
    /\ Redirect(g.stdout, Stdout, StdoutFile, "stdoutpipe", "stderr")
    /\ UNCHANGED <<rev, run, out, tempMade, covVars, guess, ff>>

MainStderr ==
    /\ pc = "stderr"
    /\ Redirect(g.stderr, Stderr, StderrFile, "stderrpipe", "run")
    /\ UNCHANGED <<rev, run, out, tempMade, covVars, guess, ff>>

\* exec.Command and runCmd: the sub-process runs (runOk is whether cmdRun
\* returned nil) and leaves a file at coverprofile; runCmd's return is main's.
MainRunCmd ==
    /\ pc = "run"
    /\ \E runOk \in BOOLEAN, written \in ProfileFiles :
          /\ run' = [ran    |-> TRUE,
                     runOk  |-> runOk,
                     parsed |-> written.exists /\ written.parsed.ok,
                     r      |-> runCmd(g.requiredCoverage, runOk, written)]
          /\ g' = IF rev = 1 /\ guessPackageName(written) # defaultPackageName
                  THEN [g EXCEPT !.bestGuessPackageName = guessPackageName(written)]
                  ELSE g
          /\ Return(runCmd(g.requiredCoverage, runOk, written).err,
                    g.cleanupFunctions,
                    [env EXCEPT !.files[g.coverprofile] = written])
    /\ UNCHANGED <<rev, out, tempMade, obtained, covVars, guess, ff>>

\* The process's main after gocovercheck.main has returned.
TopExit ==
    /\ pc = "returned"
    /\ out' = Exit(err)
    /\ pc' = "exited"
    /\ UNCHANGED <<rev, g, env, err, run, tempMade, obtained, covVars, guess, ff>>

Next ==
    \/ MainStart
    \/ MainTemp
    \/ MainFlags
    \/ MainStdout
    \/ MainStderr
    \/ MainRunCmd
    \/ TopExit

Init == MainInit /\ CovOff /\ GuessOff /\ FFOff

Spec == Init /\ [][Next]_vars

(***************************************************************************)
(* guessPackageName over small profile files.                              *)
(***************************************************************************)

MaxLineLen == 4

GuessAlphabet == {"a", "/", ":", "."}
GuessLines == UNION {[1..k -> GuessAlphabet] : k \in 0..MaxLineLen}
TextFile(lines) == File(lines, FALSE, <<>>)
GuessFiles ==
    {Absent, TextFile(<<>>), TextFile(<<ModeLine>>)}
        \cup {TextFile(<<ModeLine, l>>) : l \in GuessLines}
        \cup {TextFile(<<ModeLine, l, ModeLine>>) : l \in GuessLines}

GuessInit == guess \in {[file |-> f, called |-> FALSE, name |-> <<>>] : f \in GuessFiles}

GuessCall ==
    /\ ~guess.called
    /\ guess' = [guess EXCEPT !.called = TRUE, !.name = guessPackageName(guess.file)]
    /\ UNCHANGED <<mainVars, covVars, ff>>

GuessNext == GuessCall

GuessStart == GuessInit /\ MainOff /\ CovOff /\ FFOff

GuessSpec == GuessStart /\ [][GuessNext]_vars

(***************************************************************************)
(* forFile, and the use a caller makes of the writer it returns.           *)
(***************************************************************************)

MaxOps == 3

WriteSizes == {1, 2}

FFInit ==
    \E filename \in {"-", "", "out.txt", "d/out.txt"}, dash \in {Stdout, Stderr},
       creatable \in BOOLEAN :
        ff = [filename |-> filename, dash |-> dash, creatable |-> creatable,
              called |-> FALSE, w |-> NoWriter, err |-> "nil", created |-> FALSE,
              stored |-> 0, streamed |-> 0, closes |-> 0, failed |-> FALSE, ops |-> 0]

\* The call.  os.Create makes the file when the path can be created.
FFCall ==
    /\ ~ff.called
    /\ ff' = [ff EXCEPT
                !.called = TRUE,
                !.w = forFile(ff.filename, ff.dash,
                              IF ff.creatable THEN Created(StdoutFile) ELSE CreateFailed).w,
                !.err = forFile(ff.filename, ff.dash,
                                IF ff.creatable THEN Created(StdoutFile) ELSE CreateFailed).err,
                !.created = forFile(ff.filename, ff.dash,
                                    IF ff.creatable THEN Created(StdoutFile)
                                    ELSE CreateFailed).w = StdoutFile]
    /\ UNCHANGED <<mainVars, covVars, guess>>

\* Write on the returned writer: ioutil.Discard drops the bytes, a file keeps
\* them, dash passes them on; a closed file or stream reports an error.
FFWrite ==
    /\ ff.called /\ ff.w # NoWriter /\ ff.ops < MaxOps
    /\ \E n \in WriteSizes :
          ff' = [ff EXCEPT
                   !.ops = @ + 1,
                   !.failed = @ \/ (ff.w # Discard /\ ff.closes > 0),
                   !.stored = IF ff.w = StdoutFile /\ ff.closes = 0 THEN @ + n ELSE @,
                   !.streamed = IF ff.w = ff.dash /\ ff.closes = 0 THEN @ + n ELSE @]
    /\ UNCHANGED <<mainVars, covVars, guess>>

\* Close on the returned writer: the NopCloser of the discard sink does
\* nothing, a file or stream reports an error when closed again.
FFClose ==
    /\ ff.called /\ ff.w # NoWriter /\ ff.ops < MaxOps
    /\ ff' = [ff EXCEPT
                !.ops = @ + 1,
                !.failed = @ \/ (ff.w # Discard /\ ff.closes > 0),
                !.closes = @ + 1]
    /\ UNCHANGED <<mainVars, covVars, guess>>

FFNext == FFCall \/ FFWrite \/ FFClose

FFStart == FFInit /\ MainOff /\ CovOff /\ GuessOff

ForFileSpec == FFStart /\ [][FFNext]_vars

(***************************************************************************)
(* The claims.                                                             *)
(***************************************************************************)

F100 == FromNat(100)
F79999 == ParseFloat(79999)
F79998 == ParseFloat(79998)
F80 == ParseFloat(80000)

\* a >= b on numbers
AtLeast(a, b) == a.k = "num" /\ b.k = "num" /\ ~FLess(a, b)

Returned == pc \in {"returned", "exited"}

\* C1: whenever cmdRun returns an error, runCmd returns the wrapped
\* sub-process error, and that is what main returns; calculateCoverage and the
\* threshold comparison are not executed, whatever the required coverage and
\* whatever the profile file holds.
C1_SubprocessErrorShortCircuits ==
    (run.ran /\ ~run.runOk) =>
        /\ run.r.err = Err("subprocess")
        /\ ~run.r.calculated
        /\ ~run.r.compared
        /\ err = Err("subprocess")

C1_Witness ==
    /\ run.ran /\ ~run.runOk /\ run.parsed
    /\ g.requiredCoverage = FZero(FALSE)
    /\ g.coverprofile # "" /\ env.files[g.coverprofile] = P50

\* C2: when main ran with an empty coverprofile and the temporary profile
\* file was created, the file is gone once main has returned, on every path.
C2_TempProfileRemoved ==
    (Returned /\ tempMade) => ~env.files[TempName].exists

C2_Witness ==
    /\ pc = "returned" /\ tempMade /\ err = Err("subprocess")
    /\ ~env.files[TempName].exists

\* C3: once the sub-process has succeeded and the profile has parsed, runCmd
\* returns no error exactly when coverage + 0.001 >= required; 79.999 against
\* 80.0 passes and 79.998 against 80.0 fails.
C3_ThresholdWithTolerance ==
    (run.ran /\ run.runOk /\ run.parsed) =>
        /\ run.r.compared
        /\ (run.r.err = Nil) <=> AtLeast(FAdd(run.r.coverage, Eps), g.requiredCoverage)
        /\ run.r.err # Nil => run.r.err = Err("threshold")
        /\ (run.r.coverage = F79999 /\ g.requiredCoverage = F80) => run.r.err = Nil
        /\ (run.r.coverage = F79998 /\ g.requiredCoverage = F80) => run.r.err # Nil

C3_Witness ==
    /\ run.ran /\ run.runOk /\ run.parsed
    /\ run.r.coverage = F79999 /\ g.requiredCoverage = F80
    /\ run.r.err = Nil

\* C4: for a profile whose total statement count is 0 (no blocks, or only
\* blocks of 0 statements) calculateCoverage returns exactly 0.0 and no error.
C4_NoStatementsGivesZero ==
    (cpc = "done" /\ allEmpty) => result = [coverage |-> FZero(FALSE), err |-> "nil"]

C4_Witness ==
    /\ cpc = "done" /\ allEmpty /\ nblocks = 2
    /\ result.coverage = FZero(FALSE)

\* C5, as stated: for a profile whose every block has an execution count
\* above 0, calculateCoverage returns 100.0.
C5_AllHitGivesHundred ==
    (cpc = "done" /\ allHit) => result.coverage = F100

\* C5, amended: for a profile whose every block has an execution count above 0
\* and whose statement total, as calculateCoverage sums it, is not 0,
\* calculateCoverage returns 100.0 and no error.
C5_AllHitNonEmptyGivesHundred ==
    (cpc = "done" /\ allHit /\ ~BIsZero(total)) =>
        result = [coverage |-> F100, err |-> "nil"]

C5_Witness ==
    /\ cpc = "done" /\ allHit /\ ~BIsZero(total) /\ nblocks = 2
    /\ result.coverage = F100

\* C6: the exit status is 0 exactly when main returned no error; main
\* returns no error only if the sub-process succeeded, the profile parsed and
\* coverage + 0.001 >= required; a sub-process failure, a parse failure and a
\* coverage below the threshold each make main return an error, and then one
\* message line goes to os.Stdout and the status is 1.
C6_ExitStatus ==
    pc = "exited" =>
        /\ (out.status = 0) <=> (err = Nil)
        /\ err = Nil =>
              /\ run.ran /\ run.runOk /\ run.parsed
              /\ AtLeast(FAdd(run.r.coverage, Eps), g.requiredCoverage)
              /\ out.lines = 0
        /\ (run.ran /\ (~run.runOk \/ ~run.parsed
                        \/ ~AtLeast(FAdd(run.r.coverage, Eps), g.requiredCoverage))) =>
              /\ err.kind \in {"subprocess", "parse", "threshold"}
              /\ out.lines = 1
              /\ out.status = 1

C6_Witness ==
    /\ pc = "exited" /\ err = Err("threshold")
    /\ out = [lines |-> 1, status |-> 1]

\* The text of a line before its first ':'.
FirstColon(l) == CHOOSE i \in 1..Len(l) : l[i] = ":" /\ \A j \in 1..(i - 1) : l[j] # ":"
BeforeColon(l) == SubSeq(l, 1, FirstColon(l) - 1)
HasColon(l) == \E i \in 1..Len(l) : l[i] = ":"

\* C7: guessPackageName returns the default label for a file that cannot be
\* opened, for a file of no or one line, and for a file whose second line has
\* no ':'; in every other case it returns the directory part of the text
\* before the first ':' of the second line.
C7_GuessPackageName ==
    guess.called =>
        /\ guess.name =
              IF ~guess.file.exists \/ Len(guess.file.lines) < 2 THEN defaultPackageName
              ELSE IF ~HasColon(guess.file.lines[2]) THEN defaultPackageName
              ELSE Dir(BeforeColon(guess.file.lines[2]))
        /\ guess.file.lines = <<ModeLine, <<"a", "/", "a", ":">>>> => guess.name = <<"a">>
        /\ guess.file.lines = <<ModeLine, <<"a", ":", "/">>>> => guess.name = <<".">>
        /\ guess.file.lines = <<ModeLine, <<"/", "a", ":">>>> => guess.name = <<"/">>

C7_Witness ==
    /\ guess.called
    /\ guess.file.lines = <<ModeLine, <<"a", "/", "a", ":">>>>
    /\ guess.name = <<"a">>

\* C8: forFile("-", dash) returns dash and no error; forFile("", dash) returns
\* a sink that drops every write and reports no error on Write or Close; for
\* any other name forFile creates the file at that path, and returns the
\* error of the creation when that fails.
C8_ForFile ==
    ff.called =>
        /\ ff.filename = "-" =>
              ff.w = ff.dash /\ ff.err = "nil" /\ ~ff.created /\ ff.stored = 0
        /\ ff.filename = "" =>
              /\ ff.w = Discard /\ ff.err = "nil" /\ ~ff.created
              /\ ff.stored = 0 /\ ff.streamed = 0 /\ ~ff.failed
        /\ (ff.filename \notin {"-", ""} /\ ff.creatable) =>
              ff.w = StdoutFile /\ ff.err = "nil" /\ ff.created /\ ff.streamed = 0
        /\ (ff.filename \notin {"-", ""} /\ ~ff.creatable) =>
              ff.w = NoWriter /\ ff.err = "create" /\ ~ff.created

C8_Witness ==
    /\ ff.called /\ ff.filename = "" /\ ff.w = Discard
    /\ ff.ops = MaxOps /\ ff.closes = 2 /\ ~ff.failed

\* coverage is a number from 0 to 100
InRange(f) == AtLeast(f, FZero(FALSE)) /\ AtLeast(F100, f)

\* C9, as stated: on blocks whose statement counts are all >= 0, covered never
\* exceeds total at any step of the loop, and the returned percentage lies in
\* [0, 100].
C9_CoveredWithinTotal ==
    /\ IntLessEq(covered, total)
    /\ cpc = "done" => InRange(result.coverage)

\* How often main obtained the writer w.
Obtained(w) == Cardinality({i \in 1..Len(obtained) : obtained[i] = w})

\* C10, as stated: every writer main obtained for a redirect, other than the
\* inherited stream, has been closed exactly once when main has returned; the
\* inherited streams are never closed.
C10_ClosedExactlyOnce ==
    /\ Returned =>
          \A w \in Writers \ {Stdout, Stderr} : Obtained(w) > 0 => env.closed[w] = 1
    /\ env.closed[Stdout] = 0 /\ env.closed[Stderr] = 0

\* C10, amended: when main has returned, every file it created for a redirect
\* has been closed exactly once, the one discard sink has been closed once for
\* each redirect that resolved to it, and nothing else was closed; the
\* inherited streams are never closed.
C10_ClosedOncePerRedirect ==
    /\ Returned =>
          /\ \A w \in Writers \ {Stdout, Stderr} : env.closed[w] = Obtained(w)
          /\ Obtained(StdoutFile) <= 1 /\ Obtained(StderrFile) <= 1
    /\ env.closed[Stdout] = 0 /\ env.closed[Stderr] = 0

C10_Witness ==
    /\ pc = "returned" /\ err = Err("stderrpipe")
    /\ obtained = <<StdoutFile>> /\ env.closed[StdoutFile] = 1
====
